---- MODULE Spec2Model ----
(***************************************************************************)
(* Model of the stream handlers of music-control: the up-next queue, the   *)
(* recently-played list, the per-stream state hash and the events they     *)
(* publish, all kept in Redis.                                              *)
(*                                                                         *)
(* The repository holds the stream handler twice: src/streams/streams.go   *)
(* and a second copy inside src/songs/upload.go (lines 160-471).  The two  *)
(* differ in handleNext and handleState; the variable `build` says which   *)
(* copy a behaviour runs, and every behaviour runs exactly one of them.    *)
(*                                                                         *)
(* Every Redis command is one atomic step of the request that issues it.   *)
(* The commands of a redis.Pipeline() are sent together but are not a      *)
(* MULTI/EXEC transaction: each is executed, and can fail, on its own, and *)
(* commands of other connections may run between them.                     *)
(*                                                                         *)
(* The database holds two streams.  The variable `load` says how requests  *)
(* arrive: from concurrent connections, or one after the other from one    *)
(* client, and for which streams; a stream that no request addresses keeps *)
(* its queue, history and state, and shows a write made to the wrong key.  *)
(***************************************************************************)
EXTENDS Integers, Sequences, FiniteSets, Bags, TLC

\* ---------------------------------------------------------------- bounds
MaxRequests == 2
MaxSeqRequests == 3
MaxFaults == 1
MaxQueue == 3

Procs == {1, 2}
Streams == {"s1", "s2"}
Builds == {"streams", "upload"}

\* ------------------------------------------------------ program constants
TrackPoolKey == "track-pool"
Tombstone == ""
TrimStopStreams == 5
TrimStopUpload == 19

\* Values a request can carry.
TrackIds == {"A", "B"}
TrackIdInputs == TrackIds \cup {TrackPoolKey}
IndexInputs == {0 - 1, 0, 1, MaxQueue}
StateFields == {"currentTrack", "playing", "autoplay"}
Unset == "<unset>"
NoSlot == [id |-> "<none>", n |-> 0]

VARIABLES
    build,       \* which copy of the stream handler runs
    load,        \* the clients: how many, how many requests, for which streams
    trackKeys,   \* track ids that have a metadata hash key
    trackPool,   \* members of the set "track-pool"
    upNext,      \* upnext-<stream>: list of slots [id, n]; n is the enqueue serial
    recent,      \* recent-<stream>: list of track ids, head = last LPush
    state,       \* state-<stream>: hash field -> value
    lastEvent,   \* events-<stream>: the message published last
    pc,          \* position of each request goroutine
    rq,          \* locals of each request goroutine
    nreq,        \* requests started
    faults,      \* failed store commands so far
    nextSerial,  \* serial of the next RPush
    delivered    \* <<stream, serial>> of the slots handed to callers of /next

vars == <<build, load, trackKeys, trackPool, upNext, recent, state, lastEvent, pc, rq,
          nreq, faults, nextSerial, delivered>>
store == <<trackKeys, trackPool, upNext, recent, state>>

\* ---------------------------------------------------------- list helpers
Range(s) == {s[i] : i \in 1 .. Len(s)}
Last(s) == s[Len(s)]
Ids(list) == [i \in 1 .. Len(list) |-> list[i].id]
Min(a, b) == IF a < b THEN a ELSE b
Max(a, b) == IF a > b THEN a ELSE b

\* ------------------------------------------------------- Redis commands
\* Each operator is the effect of one command on the value under its key.
LRange(list, start, stop) ==
    LET n == Len(list)
        a == IF start < 0 THEN Max(n + start, 0) ELSE start
        b == IF stop < 0 THEN n + stop ELSE Min(stop, n - 1)
    IN  IF a > b THEN <<>> ELSE SubSeq(list, a + 1, b + 1)

\* A push at the wrong end of the list.
RPushAtHead(list, v) == <<v>> \o list

RPush(list, v) == Append(list, v)

\* A push at the wrong end of the list.
LPushAtTail(list, v) == Append(list, v)

LPush(list, v) == <<v>> \o list

LTrim(list, start, stop) == LRange(list, start, stop)

LRem(list, v) == SelectSeq(list, LAMBDA x : x # v)

LSetIndex(list, index) == IF index < 0 THEN Len(list) + index ELSE index

LSetInRange(list, index) ==
    LSetIndex(list, index) >= 0 /\ LSetIndex(list, index) < Len(list)

\* A removal that takes the element out of the list.
LSetDelete(list, index, v) ==
    [i \in 1 .. Len(list) - 1 |->
        IF i <= LSetIndex(list, index) THEN list[i] ELSE list[i + 1]]

LSet(list, index, v) ==
    [list EXCEPT ![LSetIndex(list, index) + 1] = [@ EXCEPT !.id = v]]

LPopIsNil(list) == Len(list) = 0

LPopValue(list) == Head(list)

LPopRestKeep(list) == list

LPopRest(list) == Tail(list)

UpNextKey(s) == IF s = "s1" THEN "upnext-s1" ELSE "upnext-s2"
RecentKey(s) == IF s = "s1" THEN "recent-s1" ELSE "recent-s2"
StateKey(s) == IF s = "s1" THEN "state-s1" ELSE "state-s2"

\* EXISTS key: 1 for any key of the database, whatever it holds.
Exists(key) ==
    \/ key \in trackKeys
    \/ key = TrackPoolKey /\ trackPool # {}
    \/ \E s \in Streams :
          \/ key = UpNextKey(s) /\ upNext[s] # <<>>
          \/ key = RecentKey(s) /\ recent[s] # <<>>
          \/ key = StateKey(s) /\ \E f \in StateFields : state[s][f] # Unset

HSet(hash, field, v) == [hash EXCEPT ![field] = v]

\* The outcome of a store command: TRUE when it succeeds.
Outcomes == IF faults < MaxFaults THEN {TRUE, FALSE} ELSE {TRUE}
Fault(ok) == faults' = IF ok THEN faults ELSE faults + 1

\* ------------------------------------------------------ request locals
Serials(list) == {list[i].n : i \in 1 .. Len(list)}

\* What a RemoveAt(index) meets: `before` is the queue as the client's List
\* returned it and `found` the queue as the LSet command finds it.  named:
\* the index named an entry of `before`; same: the slot at the index is
\* still that entry; present: that entry is still in the queue; intact: so
\* is every entry of `before`; changed: the queue is not as it was.
Compared(before, found, index) ==
    LET named == index >= 0 /\ index < Len(before) IN
    [named |-> named,
     same |-> /\ named
              /\ index < Len(found)
              /\ found[index + 1].n = before[index + 1].n,
     present |-> named /\ before[index + 1].n \in Serials(found),
     intact |-> Serials(before) \subseteq Serials(found),
     changed |-> found # before]

NotSet == Compared(<<>>, <<>>, 0)

NoResult == [kind |-> "none", trackId |-> "", path |-> "", serial |-> 0]
InitLocals ==
    [op |-> "none", stream |-> "s1", trackId |-> "", index |-> 0,
     next |-> NoSlot, input |-> <<>>, form |-> <<>>, key |-> "", value |-> "",
     pipeErr |-> FALSE, recentlyPlayed |-> <<>>, allTracks |-> {},
     upNextSnap |-> <<>>, httpError |-> FALSE, sent |-> <<>>, popped |-> 0,
     stateSnap |-> <<>>, lpopErr |-> FALSE, queueEmpty |-> FALSE,
     before |-> <<>>, atSet |-> NotSet, firstValid |-> 0,
     result |-> NoResult]

Event(kind, key, value, snap) ==
    [event |-> kind, key |-> key, value |-> value, upNext |-> snap]

NoEvent == Event("none", "", "", <<>>)

\* A Publish that sends nothing.
PublishDropped(p, ev) == UNCHANGED <<lastEvent, rq>>

\* Publish on events-<stream>; the request's own messages are kept in sent.
Publish(p, ev) ==
    /\ lastEvent' = [lastEvent EXCEPT ![rq[p].stream] = ev]
    /\ rq' = [rq EXCEPT ![p].sent = Append(@, ev)]

Goto(p, label) == pc' = [pc EXCEPT ![p] = label]

Finish(p, res) ==
    /\ pc' = [pc EXCEPT ![p] = "respond"]
    /\ rq' = [rq EXCEPT ![p].result = res]

\* ---------------------------------------------------------------- Init
InitCatalogs == {{}, {"A", "B"}}

InitQueues(cat) ==
    {<<>>} \cup
    (IF cat = TrackIds
        THEN {<<[id |-> "A", n |-> 1], [id |-> Tombstone, n |-> 2],
                [id |-> "B", n |-> 3]>>}
        ELSE {})

\* Ids that were played and are not in the pool (currentTrack is not checked
\* against the pool): a history that LTrim has cut to its full length.
Fillers ==
    <<"f01", "f02", "f03", "f04", "f05", "f06", "f07", "f08", "f09", "f10",
      "f11", "f12", "f13", "f14", "f15", "f16", "f17", "f18", "f19", "f20">>

FullHistory(b) ==
    SubSeq(Fillers, 1, (IF b = "streams" THEN TrimStopStreams ELSE TrimStopUpload) + 1)

InitHistories(b) == {<<>>, <<"A">>, <<"B", "A">>, FullHistory(b)}

\* Requests arriving from several connections at once, or one after the
\* other from a single client that waits for each answer.
Concurrent == [clients |-> 2, requests |-> MaxRequests, streams |-> {"s1"}]
Sequential == [clients |-> 1, requests |-> MaxSeqRequests, streams |-> {"s1"}]

\* The store as earlier requests left it, and no request in progress.
\* Stream s1 starts with one of the given queues and histories; every other
\* stream holds one queued track and one played track.
InitStore(catalogs, queues, histories) ==
    /\ build \in Builds
    /\ trackPool \in catalogs
    /\ trackKeys = trackPool
    /\ \E q \in queues \cap InitQueues(trackPool) :
          /\ upNext = [s \in Streams |->
                         IF s = "s1" THEN q
                         ELSE <<[id |-> "B", n |-> Len(q) + 1]>>]
          /\ nextSerial = Len(q) + 2
    /\ \E h \in histories \cap InitHistories(build) :
          /\ recent = [s \in Streams |-> IF s = "s1" THEN h ELSE <<"A">>]
          /\ state = [s \in Streams |->
                        [f \in StateFields |->
                            IF f = "currentTrack" /\ recent[s] # <<>>
                               THEN Head(recent[s])
                               ELSE Unset]]
    /\ lastEvent = [s \in Streams |-> NoEvent]
    /\ pc = [p \in Procs |-> "idle"]
    /\ rq = [p \in Procs |-> InitLocals]
    /\ nreq = 0
    /\ faults = 0
    /\ delivered = EmptyBag

InitWith(catalogs, queues, histories) ==
    /\ InitStore(catalogs, queues, histories)
    /\ load = Concurrent

Init ==
    /\ InitStore({TrackIds}, InitQueues(TrackIds), {<<"B", "A">>})
    /\ load = [Concurrent EXCEPT !.streams = Streams]

InitQueue == InitWith(InitCatalogs, {<<>>}, {<<>>, <<"A">>, <<"B", "A">>})

\* A stream in the middle of a programme: tracks queued, tracks played.
InitQueued ==
    InitWith({TrackIds}, InitQueues(TrackIds) \ {<<>>}, {<<"B", "A">>})

InitPlaying == InitWith({TrackIds}, {<<>>}, {<<"B", "A">>})

\* One client calling the queue operations one after the other.
InitSeqQueue ==
    /\ InitStore(InitCatalogs, InitQueues(TrackIds), {<<>>, <<"B", "A">>})
    /\ load = Sequential

InitState ==
    InitWith({TrackIds}, {<<>>}, UNION {InitHistories(b) : b \in Builds})

\* A request arrives: the router dispatches on path and method.  The
\* goroutines are interchangeable, so a request takes the first free one.
Arrive(p) ==
    /\ pc[p] = "idle"
    /\ p <= load.clients
    /\ \A q \in Procs : q < p => pc[q] # "idle"
    /\ nreq < load.requests
    /\ nreq' = nreq + 1

Start(p, locals) ==
    /\ Arrive(p)
    /\ locals.stream \in load.streams
    /\ rq' = [rq EXCEPT ![p] = locals]

\* The response is written and the goroutine ends.
Respond(p) ==
    /\ pc[p] = "respond"
    /\ pc' = [pc EXCEPT ![p] = "idle"]
    /\ rq' = [rq EXCEPT ![p] = InitLocals]
    /\ UNCHANGED <<build, load, store, lastEvent, nreq, faults, nextSerial, delivered>>

\* ------------------------------------------------- publishUpNextUpdate
\* LRange(...).Val() of a failed command is nil: the snapshot is then empty.
publishUpNextUpdate_LRange(p) ==
    /\ pc[p] = "pub_lrange"
    /\ \E ok \in Outcomes :
          /\ Fault(ok)
          /\ rq' = [rq EXCEPT ![p].upNextSnap =
                      IF ok THEN Ids(LRange(upNext[rq[p].stream], 0, 0 - 1))
                      ELSE <<>>]
    /\ Goto(p, "pub_publish")
    /\ UNCHANGED <<build, load, store, lastEvent, nreq, nextSerial, delivered>>

\* A failed Publish is logged and the handler goes on.
publishUpNextUpdate_Publish(p) ==
    /\ pc[p] = "pub_publish"
    /\ \E ok \in Outcomes :
          /\ Fault(ok)
          /\ IF ok
                THEN Publish(p, Event("updateUpNext", "", "", rq[p].upNextSnap))
                ELSE UNCHANGED <<lastEvent, rq>>
    /\ Goto(p, "respond")
    /\ UNCHANGED <<build, load, store, nreq, nextSerial, delivered>>

\* --------------------------------------------------------- handleUpNext
\* GET: the list as LRange returns it; a failed LRange gives the empty list.
handleUpNext_Get(p, s) ==
    /\ Start(p, [InitLocals EXCEPT !.op = "list", !.stream = s])
    /\ Goto(p, "list_lrange")
    /\ UNCHANGED <<build, load, store, lastEvent, faults, nextSerial, delivered>>

handleUpNext_Get_LRange(p) ==
    /\ pc[p] = "list_lrange"
    /\ \E ok \in Outcomes :
          /\ Fault(ok)
          /\ rq' = [rq EXCEPT
                      ![p].upNextSnap =
                          IF ok THEN Ids(LRange(upNext[rq[p].stream], 0, 0 - 1))
                          ELSE <<>>,
                      ![p].result = [NoResult EXCEPT !.kind = "list"]]
    /\ Goto(p, "respond")
    /\ UNCHANGED <<build, load, store, lastEvent, nreq, nextSerial, delivered>>

\* PUT: r.FormValue("trackId"), then Exists, RPush, publishUpNextUpdate.
handleUpNext_Put(p, s, trackId) ==
    /\ Start(p, [InitLocals EXCEPT !.op = "enqueue", !.stream = s,
                                   !.trackId = trackId])
    /\ Goto(p, "put_exists")
    /\ UNCHANGED <<build, load, store, lastEvent, faults, nextSerial, delivered>>

\* Exists(trackId).Val() == 0 rejects with 424; Val() is 0 when the command fails.
handleUpNext_Put_Exists(p) ==
    /\ pc[p] = "put_exists"
    /\ \E ok \in Outcomes :
          /\ Fault(ok)
          /\ IF ok /\ Exists(rq[p].trackId)
                THEN Goto(p, "put_rpush") /\ UNCHANGED rq
                ELSE Finish(p, [NoResult EXCEPT !.kind = "unknownTrack"])
    /\ UNCHANGED <<build, load, store, lastEvent, nreq, nextSerial, delivered>>

handleUpNext_Put_RPush(p) ==
    /\ pc[p] = "put_rpush"
    /\ \E ok \in Outcomes :
          /\ Fault(ok)
          /\ IF ok
                THEN /\ upNext' = [upNext EXCEPT ![rq[p].stream] =
                           RPush(@, [id |-> rq[p].trackId, n |-> nextSerial])]
                     /\ nextSerial' = nextSerial + 1
                     /\ rq' = [rq EXCEPT ![p].result =
                                  [NoResult EXCEPT !.kind = "ok"]]
                     /\ Goto(p, "pub_lrange")
                ELSE /\ Finish(p, [NoResult EXCEPT !.kind = "storeError"])
                     /\ UNCHANGED <<upNext, nextSerial>>
    /\ UNCHANGED <<build, load, trackKeys, trackPool, recent, state, lastEvent, nreq,
                   delivered>>

\* DELETE: strconv.ParseInt of the index, then LSet(index, "").  Any LSet
\* error (index out of range, no such key, a failed command) answers 400.
\* The index is one the client read off a List answer: before notes the
\* queue as that List returned it, taken at the arrival of the request, and
\* atSet how the queue that the LSet command finds compares with it.
handleUpNext_Delete(p, s, index) ==
    /\ Start(p, [InitLocals EXCEPT !.op = "remove", !.stream = s,
                                   !.index = index, !.before = upNext[s]])
    /\ Goto(p, "delete_lset")
    /\ UNCHANGED <<build, load, store, lastEvent, faults, nextSerial, delivered>>

handleUpNext_Delete_LSet(p) ==
    /\ pc[p] = "delete_lset"
    /\ \E ok \in Outcomes :
          /\ Fault(ok)
          /\ IF ok /\ LSetInRange(upNext[rq[p].stream], rq[p].index)
                THEN /\ upNext' = [upNext EXCEPT ![rq[p].stream] =
                           LSet(@, rq[p].index, Tombstone)]
                     /\ rq' = [rq EXCEPT
                                 ![p].result = [NoResult EXCEPT !.kind = "ok"],
                                 ![p].before = <<>>,
                                 ![p].atSet = Compared(rq[p].before,
                                     upNext[rq[p].stream], rq[p].index)]
                     /\ Goto(p, "pub_lrange")
                ELSE /\ Finish(p, [NoResult EXCEPT !.kind = "badRequest"])
                     /\ UNCHANGED upNext
    /\ UNCHANGED <<build, load, trackKeys, trackPool, recent, state, lastEvent, nreq,
                   nextSerial, delivered>>

\* One client calling Patch and GetState one after the other.
InitSeqState ==
    /\ InitStore({TrackIds}, {<<>>}, UNION {InitHistories(b) : b \in Builds})
    /\ load = Sequential

\* ----------------------------------------------------------- handleNext
\* The serial of the first slot of the list that holds the id of a track of
\* the pool, 0 when there is none.
FirstValid(list) ==
    LET valid == {i \in 1 .. Len(list) : list[i].id \in trackPool}
    IN  IF valid = {} THEN 0
        ELSE list[CHOOSE i \in valid : \A j \in valid : i <= j].n

\* firstValid notes what the queue holds when the call arrives.
handleNext(p, s) ==
    /\ Start(p, [InitLocals EXCEPT !.op = "next", !.stream = s,
                                   !.firstValid = FirstValid(upNext[s])])
    /\ Goto(p, "next_lpop")
    /\ UNCHANGED <<build, load, store, lastEvent, faults, nextSerial, delivered>>

\* for { next, err := LPop(...).Result() ... }: redis.Nil leaves the loop;
\* any other error leaves next == "" and takes the `continue` of the
\* tombstone test, as a popped tombstone does.
handleNext_LPop(p) ==
    /\ pc[p] = "next_lpop"
    /\ \E ok \in Outcomes :
          /\ Fault(ok)
          /\ LET list == upNext[rq[p].stream] IN
             IF ~ok
                THEN /\ rq' = [rq EXCEPT ![p].next = NoSlot,
                                         ![p].lpopErr = TRUE]
                     /\ UNCHANGED <<upNext, pc>>
             ELSE IF LPopIsNil(list)
                THEN /\ rq' = [rq EXCEPT ![p].next = NoSlot,
                                         ![p].lpopErr = FALSE,
                                         ![p].queueEmpty = TRUE]
                     /\ Goto(p, "select_lrange")
                     /\ UNCHANGED upNext
             ELSE /\ upNext' = [upNext EXCEPT ![rq[p].stream] = LPopRest(list)]
                  /\ rq' = [rq EXCEPT ![p].next = LPopValue(list),
                                      ![p].lpopErr = FALSE,
                                      ![p].popped = @ + 1]
                  /\ IF LPopValue(list).id = Tombstone
                        THEN UNCHANGED pc
                        ELSE Goto(p, "next_exists")
    /\ UNCHANGED <<build, load, trackKeys, trackPool, recent, state, lastEvent, nreq,
                   nextSerial, delivered>>

\* The slot popped is the one this call answers with.
Deliver(p, path, trackId, serial) ==
    /\ rq' = [rq EXCEPT ![p].result =
                 [kind |-> "track", trackId |-> trackId, path |-> path,
                  serial |-> serial]]
    /\ delivered' = IF path = "queue"
                       THEN delivered (+) SetToBag({<<rq[p].stream, serial>>})
                       ELSE delivered

\* Exists(next).Val() == 0 (also when the command fails) drops the entry.
\* streams.go answers from here; the copy in upload.go first looks the
\* track up (trackIdToTrack).
handleNext_Exists(p) ==
    /\ pc[p] = "next_exists"
    /\ \E ok \in Outcomes :
          /\ Fault(ok)
          /\ IF ~(ok /\ Exists(rq[p].next.id))
                THEN Goto(p, "next_lpop") /\ UNCHANGED <<rq, delivered>>
             ELSE IF build = "upload"
                THEN Goto(p, "next_meta") /\ UNCHANGED <<rq, delivered>>
             ELSE /\ Deliver(p, "queue", rq[p].next.id, rq[p].next.n)
                  /\ Goto(p, "pub_lrange")
    /\ UNCHANGED <<build, load, store, lastEvent, nreq, nextSerial>>

\* upload.go only: trackIdToTrack(next) is HGetAll(next); an error answers 500.
handleNext_TrackData(p) ==
    /\ pc[p] = "next_meta"
    /\ \E ok \in Outcomes :
          /\ Fault(ok)
          /\ IF ok
                THEN /\ Deliver(p, "queue", rq[p].next.id, rq[p].next.n)
                     /\ Goto(p, "pub_lrange")
                ELSE /\ Finish(p, [NoResult EXCEPT !.kind = "storeError"])
                     /\ UNCHANGED delivered
    /\ UNCHANGED <<build, load, store, lastEvent, nreq, nextSerial>>

\* A selection that empties the history it reads.
handleNext_RecentlyPlayedConsuming(p) ==
    /\ pc[p] = "select_lrange"
    /\ rq' = [rq EXCEPT ![p].recentlyPlayed = recent[rq[p].stream]]
    /\ recent' = [recent EXCEPT ![rq[p].stream] = <<>>]
    /\ Goto(p, "select_smembers")
    /\ UNCHANGED <<build, load, trackKeys, trackPool, upNext, state, lastEvent,
                   nreq, faults, nextSerial, delivered>>

\* The pipeline of the selection: LRange(recent-<stream>, 0, -1) ...
handleNext_RecentlyPlayed(p) ==
    /\ pc[p] = "select_lrange"
    /\ \E ok \in Outcomes :
          /\ Fault(ok)
          /\ rq' = [rq EXCEPT
                      ![p].recentlyPlayed =
                          IF ok THEN LRange(recent[rq[p].stream], 0, 0 - 1)
                          ELSE <<>>,
                      ![p].pipeErr = ~ok]
    /\ Goto(p, "select_smembers")
    /\ UNCHANGED <<build, load, store, lastEvent, nreq, nextSerial, delivered>>

availableTracksAll(allTracks, recentlyPlayed) == allTracks

\* availableTracks: every member of the pool, less every id recently played.
availableTracks(allTracks, recentlyPlayed) == allTracks \ Range(recentlyPlayed)

noMusicIgnoringHistory(available, recentlyPlayed) == available = {}

\* len(availableTracks) == 0 and len(recentlyPlayed.Val()) == 0: answer 418.
noMusic(available, recentlyPlayed) ==
    available = {} /\ Len(recentlyPlayed) = 0

\* streams.go takes recentlyPlayed.Val()[0]; the copy in upload.go takes
\* recentlyPlayed.Val()[len-1].
oldestTrack(b, recentlyPlayed) ==
    IF b = "streams" THEN recentlyPlayed[1] ELSE Last(recentlyPlayed)

\* ... and SMembers(track-pool); Exec returns the first error of the two.
\* Then the choice: 418, the oldest track, or selectionList[rand.Intn(len)].
handleNext_Select(p) ==
    /\ pc[p] = "select_smembers"
    /\ \E ok \in Outcomes :
          /\ Fault(ok)
          /\ LET all == IF ok THEN trackPool ELSE {}
                 played == rq[p].recentlyPlayed
                 available == availableTracks(all, played)
                 answer(path, id) ==
                     [rq EXCEPT ![p].allTracks = all,
                                ![p].result = [kind |-> "track", trackId |-> id,
                                               path |-> path, serial |-> 0]]
             IN
             IF rq[p].pipeErr \/ ~ok
                THEN /\ rq' = [rq EXCEPT ![p].allTracks = all,
                                         ![p].pipeErr = TRUE,
                                         ![p].result =
                                  [NoResult EXCEPT !.kind = "storeError"]]
                     /\ Goto(p, "respond")
             ELSE IF noMusic(available, played)
                THEN /\ rq' = [rq EXCEPT ![p].allTracks = all,
                                         ![p].result =
                                  [NoResult EXCEPT !.kind = "noContent"]]
                     /\ Goto(p, "respond")
             ELSE IF available = {}
                THEN /\ rq' = answer("oldest", oldestTrack(build, played))
                     /\ Goto(p, IF build = "upload" THEN "select_meta"
                                ELSE "respond")
             ELSE \E track \in available :
                     /\ rq' = answer("random", track)
                     /\ Goto(p, IF build = "upload" THEN "select_meta"
                                ELSE "respond")
    /\ UNCHANGED <<build, load, store, lastEvent, nreq, nextSerial, delivered>>

\* upload.go only: trackIdToTrack of the chosen track; an error answers 500.
handleNext_SelectTrackData(p) ==
    /\ pc[p] = "select_meta"
    /\ \E ok \in Outcomes :
          /\ Fault(ok)
          /\ IF ok
                THEN UNCHANGED rq
                ELSE rq' = [rq EXCEPT ![p].result =
                               [NoResult EXCEPT !.kind = "storeError"]]
    /\ Goto(p, "respond")
    /\ UNCHANGED <<build, load, store, lastEvent, nreq, nextSerial, delivered>>

\* ---------------------------------------------------------- handleState
\* The form of a PATCH: the keys of r.Form with their first value.
PatchForms ==
    {("currentTrack" :> t) : t \in TrackIds} \cup
    {("playing" :> "true"), ("autoplay" :> "true"), ("skip" :> "1"),
     ("volume" :> "11"),
     ("currentTrack" :> "A") @@ ("autoplay" :> "true"),
     ("playing" :> "true") @@ ("skip" :> "1")}

Without(form, k) == [x \in DOMAIN form \ {k} |-> form[x]]

\* LTrim(recent-<stream>, 0, 5) in streams.go, (0, 19) in upload.go.
TrimStop(b) == IF b = "streams" THEN TrimStopStreams ELSE TrimStopUpload

\* switch k: in streams.go `case "playing":` has an empty body (a Go case
\* does not fall through); in upload.go it falls through to "autoplay".
\* Any other key matches no case.
Handled(b, k) ==
    \/ k \in {"currentTrack", "autoplay", "skip"}
    \/ k = "playing" /\ b = "upload"

FirstStep(k) ==
    CASE k = "currentTrack" -> "ct_hset"
      [] k = "skip" -> "skip_publish"
      [] OTHER -> "kv_hset"

\* for k, sv := range r.Form: the order of a map's keys is not fixed, so the
\* next key is any key left.  Keys that match no case do nothing and are
\* passed over here.  After the last key the handler returns: 200 unless
\* http.Error was called.  `locals` are the goroutine's locals as the step
\* that ends the previous key leaves them (it does not write the store).
RangeForm(p, locals) ==
    LET keys == {k \in DOMAIN locals.form : Handled(build, k)} IN
    IF keys = {}
       THEN /\ rq' = [rq EXCEPT ![p] =
                        [locals EXCEPT !.form = <<>>,
                                       !.result = [NoResult EXCEPT !.kind =
                                           IF locals.httpError THEN "storeError"
                                           ELSE "ok"]]]
            /\ Goto(p, "respond")
       ELSE \E k \in keys :
               /\ rq' = [rq EXCEPT ![p] =
                           [locals EXCEPT
                               !.form = Without(@, k),
                               !.key = k,
                               !.value = locals.form[k],
                               !.pipeErr = FALSE,
                               !.before =
                                   IF k = "currentTrack"
                                      THEN <<state[locals.stream]["currentTrack"],
                                             recent[locals.stream]>>
                                      ELSE @]]
               /\ Goto(p, FirstStep(k))

handleState_Patch(p, s, form) ==
    /\ Arrive(p)
    /\ s \in load.streams
    /\ RangeForm(p, [InitLocals EXCEPT !.op = "patch", !.stream = s,
                                       !.input = form, !.form = form])
    /\ UNCHANGED <<build, load, store, lastEvent, faults, nextSerial, delivered>>

\* case "currentTrack": the commands of the pipeline, one step each.
\* p.HSet(stateKey, "currentTrack", v)
handleState_CurrentTrack_HSet(p) ==
    /\ pc[p] = "ct_hset"
    /\ \E ok \in Outcomes :
          /\ Fault(ok)
          /\ state' = IF ok
                         THEN [state EXCEPT ![rq[p].stream] =
                                  HSet(@, "currentTrack", rq[p].value)]
                         ELSE state
          /\ rq' = [rq EXCEPT ![p].pipeErr = @ \/ ~ok]
    /\ Goto(p, IF build = "upload" THEN "ct_lrem" ELSE "ct_lpush")
    /\ UNCHANGED <<build, load, trackKeys, trackPool, upNext, recent, lastEvent, nreq,
                   nextSerial, delivered>>

\* upload.go only: p.LRem(recent-<stream>, 0, v)
handleState_CurrentTrack_LRem(p) ==
    /\ pc[p] = "ct_lrem"
    /\ \E ok \in Outcomes :
          /\ Fault(ok)
          /\ recent' = IF ok
                          THEN [recent EXCEPT ![rq[p].stream] =
                                   LRem(@, rq[p].value)]
                          ELSE recent
          /\ rq' = [rq EXCEPT ![p].pipeErr = @ \/ ~ok]
    /\ Goto(p, "ct_lpush")
    /\ UNCHANGED <<build, load, trackKeys, trackPool, upNext, state, lastEvent, nreq,
                   nextSerial, delivered>>

\* p.LPush(recent-<stream>, v)
handleState_CurrentTrack_LPush(p) ==
    /\ pc[p] = "ct_lpush"
    /\ \E ok \in Outcomes :
          /\ Fault(ok)
          /\ recent' = IF ok
                          THEN [recent EXCEPT ![rq[p].stream] =
                                   LPush(@, rq[p].value)]
                          ELSE recent
          /\ rq' = [rq EXCEPT ![p].pipeErr = @ \/ ~ok]
    /\ Goto(p, "ct_ltrim")
    /\ UNCHANGED <<build, load, trackKeys, trackPool, upNext, state, lastEvent, nreq,
                   nextSerial, delivered>>

\* p.LTrim(recent-<stream>, 0, stop), then Exec: its error is the first
\* error of the commands; on an error http.Error answers 500 and `break`
\* leaves the switch, so nothing is published for this key.
\* A batch whose failure is logged and leaves the response as it is.
handleState_CurrentTrack_LTrimLogged(p) ==
    /\ pc[p] = "ct_ltrim"
    /\ \E ok \in Outcomes :
          /\ Fault(ok)
          /\ recent' = IF ok
                          THEN [recent EXCEPT ![rq[p].stream] =
                                   LTrim(@, 0, TrimStop(build))]
                          ELSE recent
          /\ IF rq[p].pipeErr \/ ~ok
                THEN RangeForm(p, [rq[p] EXCEPT !.pipeErr = TRUE])
                ELSE UNCHANGED rq /\ Goto(p, "update_publish")
    /\ UNCHANGED <<build, load, trackKeys, trackPool, upNext, state, lastEvent, nreq,
                   nextSerial, delivered>>

handleState_CurrentTrack_LTrim(p) ==
    /\ pc[p] = "ct_ltrim"
    /\ \E ok \in Outcomes :
          /\ Fault(ok)
          /\ recent' = IF ok
                          THEN [recent EXCEPT ![rq[p].stream] =
                                   LTrim(@, 0, TrimStop(build))]
                          ELSE recent
          /\ IF rq[p].pipeErr \/ ~ok
                THEN RangeForm(p, [rq[p] EXCEPT !.pipeErr = TRUE,
                                                !.httpError = TRUE])
                ELSE UNCHANGED rq /\ Goto(p, "update_publish")
    /\ UNCHANGED <<build, load, trackKeys, trackPool, upNext, state, lastEvent, nreq,
                   nextSerial, delivered>>

\* case "autoplay" (and "playing" in upload.go): HSet(stateKey, k, v); its
\* error is ignored (streams.go) or logged (upload.go), and publishUpdate
\* follows either way.
handleState_Field_HSet(p) ==
    /\ pc[p] = "kv_hset"
    /\ \E ok \in Outcomes :
          /\ Fault(ok)
          /\ state' = IF ok
                         THEN [state EXCEPT ![rq[p].stream] =
                                  HSet(@, rq[p].key, rq[p].value)]
                         ELSE state
          /\ rq' = [rq EXCEPT ![p].pipeErr = ~ok]
    /\ Goto(p, "update_publish")
    /\ UNCHANGED <<build, load, trackKeys, trackPool, upNext, recent, lastEvent, nreq,
                   nextSerial, delivered>>

\* publishUpdate(stream, k, v); a failed Publish is logged.
publishUpdate(p) ==
    /\ pc[p] = "update_publish"
    /\ \E ok \in Outcomes :
          /\ Fault(ok)
          /\ IF ok
                THEN /\ lastEvent' = [lastEvent EXCEPT ![rq[p].stream] =
                           Event("update", rq[p].key, rq[p].value, <<>>)]
                     /\ RangeForm(p, [rq[p] EXCEPT !.sent = Append(@,
                           Event("update", rq[p].key, rq[p].value, <<>>))])
                ELSE /\ RangeForm(p, rq[p])
                     /\ UNCHANGED lastEvent
    /\ UNCHANGED <<build, load, store, nreq, nextSerial, delivered>>

\* A skip that also clears the current track of the stream.
handleState_SkipClearing(p) ==
    /\ pc[p] = "skip_publish"
    /\ lastEvent' = [lastEvent EXCEPT ![rq[p].stream] =
                        Event("requestSkip", "", "", <<>>)]
    /\ state' = [state EXCEPT ![rq[p].stream] = HSet(@, "currentTrack", Unset)]
    /\ RangeForm(p, [rq[p] EXCEPT !.sent = Append(@,
                        Event("requestSkip", "", "", <<>>))])
    /\ UNCHANGED <<build, load, trackKeys, trackPool, upNext, recent, nreq,
                   faults, nextSerial, delivered>>

\* case "skip": Publish of requestSkip; a failure is logged.
handleState_Skip(p) ==
    /\ pc[p] = "skip_publish"
    /\ \E ok \in Outcomes :
          /\ Fault(ok)
          /\ IF ok
                THEN /\ lastEvent' = [lastEvent EXCEPT ![rq[p].stream] =
                           Event("requestSkip", "", "", <<>>)]
                     /\ RangeForm(p, [rq[p] EXCEPT !.sent = Append(@,
                           Event("requestSkip", "", "", <<>>))])
                ELSE /\ RangeForm(p, rq[p])
                     /\ UNCHANGED lastEvent
    /\ UNCHANGED <<build, load, store, nreq, nextSerial, delivered>>

\* GET: HGetAll(stateKey); an error answers 500.  upload.go then replaces
\* currentTrack by the track's data (HGetAll(trackId)) and drops the field
\* when that lookup fails.
handleState_Get(p, s) ==
    /\ Start(p, [InitLocals EXCEPT !.op = "state", !.stream = s])
    /\ Goto(p, "get_hgetall")
    /\ UNCHANGED <<build, load, store, lastEvent, faults, nextSerial, delivered>>

handleState_Get_HGetAll(p) ==
    /\ pc[p] = "get_hgetall"
    /\ \E ok \in Outcomes :
          /\ Fault(ok)
          /\ IF ~ok
                THEN Finish(p, [NoResult EXCEPT !.kind = "storeError"])
                ELSE /\ rq' = [rq EXCEPT
                                 ![p].stateSnap = state[rq[p].stream],
                                 ![p].result = [NoResult EXCEPT !.kind = "state"]]
                     /\ Goto(p, IF build = "upload" /\
                                   state[rq[p].stream]["currentTrack"] # Unset
                                   THEN "get_meta" ELSE "respond")
    /\ UNCHANGED <<build, load, store, lastEvent, nreq, nextSerial, delivered>>

handleState_Get_TrackData(p) ==
    /\ pc[p] = "get_meta"
    /\ \E ok \in Outcomes :
          /\ Fault(ok)
          /\ rq' = IF ok THEN rq
                   ELSE [rq EXCEPT ![p].stateSnap["currentTrack"] = Unset]
    /\ Goto(p, "respond")
    /\ UNCHANGED <<build, load, store, lastEvent, nreq, nextSerial, delivered>>

QueueNext ==
    \E p \in Procs :
        \/ \E s \in Streams : handleUpNext_Get(p, s)
        \/ handleUpNext_Get_LRange(p)
        \/ \E s \in Streams, t \in TrackIdInputs : handleUpNext_Put(p, s, t)
        \/ handleUpNext_Put_Exists(p)
        \/ handleUpNext_Put_RPush(p)
        \/ \E s \in Streams, i \in IndexInputs : handleUpNext_Delete(p, s, i)
        \/ handleUpNext_Delete_LSet(p)
        \/ \E s \in Streams : handleNext(p, s)
        \/ handleNext_LPop(p)
        \/ handleNext_Exists(p)
        \/ handleNext_TrackData(p)
        \/ handleNext_RecentlyPlayed(p)
        \/ handleNext_Select(p)
        \/ handleNext_SelectTrackData(p)
        \/ publishUpNextUpdate_LRange(p)
        \/ publishUpNextUpdate_Publish(p)
        \/ Respond(p)

StateNext ==
    \E p \in Procs :
        \/ \E s \in Streams, f \in PatchForms : handleState_Patch(p, s, f)
        \/ handleState_CurrentTrack_HSet(p)
        \/ handleState_CurrentTrack_LRem(p)
        \/ handleState_CurrentTrack_LPush(p)
        \/ handleState_CurrentTrack_LTrim(p)
        \/ handleState_Field_HSet(p)
        \/ publishUpdate(p)
        \/ handleState_Skip(p)
        \/ \E s \in Streams : handleState_Get(p, s)
        \/ handleState_Get_HGetAll(p)
        \/ handleState_Get_TrackData(p)
        \/ Respond(p)

Next == QueueNext \/ StateNext

Spec == Init /\ [][Next]_vars

SpecQueue == InitQueue /\ [][QueueNext]_vars

SpecState == InitState /\ [][StateNext]_vars

SpecQueued == InitQueued /\ [][QueueNext]_vars

SpecPlaying == InitPlaying /\ [][StateNext]_vars

SpecSeqQueue == InitSeqQueue /\ [][QueueNext]_vars

SpecSeqState == InitSeqState /\ [][StateNext]_vars

\* ================================================================ claims
Idle == \A p \in Procs : pc[p] = "idle"
NoDuplicates(list) ==
    \A i, j \in 1 .. Len(list) : i # j => list[i] # list[j]
FromQueue(p) ==
    rq[p].op = "next" /\ rq[p].result.kind = "track" /\ rq[p].result.path = "queue"
Selected(p) ==
    rq[p].op = "next" /\ rq[p].result.kind = "track" /\ rq[p].result.path # "queue"

\* C1: a slot that Enqueue appended is handed to at most one caller of
\* NextTrack, whatever the interleaving of the calls, and a slot handed out
\* is no longer in the queue.
C1_SlotDeliveredOnce ==
    /\ \A n \in BagToSet(delivered) : CopiesIn(n, delivered) = 1
    /\ \A s \in Streams : \A i \in 1 .. Len(upNext[s]) :
          ~BagIn(<<s, upNext[s][i].n>>, delivered)

\* Two calls in progress at the same time have each received a slot.
C1_Witness ==
    \E p, q \in Procs :
        /\ p # q
        /\ FromQueue(p) /\ FromQueue(q)
        /\ rq[p].stream = rq[q].stream
        /\ rq[p].result.serial # rq[q].result.serial

\* C2: in every state another request can observe, state.currentTrack and
\* the head of the recency history agree: neither is updated without the
\* other.
C2_CurrentTrackIsHistoryHead ==
    \A s \in Streams :
        IF recent[s] = <<>>
           THEN state[s]["currentTrack"] = Unset
           ELSE state[s]["currentTrack"] = Head(recent[s])

\* C3: when a command of the Patch(currentTrack = v) batch has failed, the
\* batch has had no effect: once it is over, state.currentTrack and the
\* recency history are what they were before it (stated for a Patch that
\* runs alone).
C3_FailedBatchHasNoEffect ==
    \A p \in Procs :
        (/\ nreq = 1
         /\ rq[p].op = "patch"
         /\ rq[p].httpError)
        => /\ state[rq[p].stream]["currentTrack"] = rq[p].before[1]
           /\ recent[rq[p].stream] = rq[p].before[2]

\* C4: the id DequeueNext returns is not a tombstone, is an id of the
\* catalog (a member of the track pool), and no slot that preceded it is
\* left in the queue.
C4_DequeuedIsCatalogTrack ==
    \A p \in Procs :
        FromQueue(p)
        => /\ rq[p].result.trackId # Tombstone
           /\ rq[p].result.trackId \in trackPool
           /\ \A i \in 1 .. Len(upNext[rq[p].stream]) :
                 upNext[rq[p].stream][i].n > rq[p].result.serial

\* C5: when the head pop has failed with an error other than "queue empty",
\* the request has ended with StoreError: it neither pops again nor goes on
\* to the selection.
C5_PopErrorEndsRequest ==
    \A p \in Procs :
        (rq[p].op = "next" /\ rq[p].lpopErr)
        => (pc[p] = "respond" /\ rq[p].result.kind = "storeError")

\* C6: after any number of completed Patch(currentTrack) calls the recency
\* history is no longer than the maximum the handler trims it to.
C6_HistoryBounded ==
    Idle => \A s \in Streams : Len(recent[s]) <= TrimStop(build) + 1

\* C7: after any number of completed Patch(currentTrack) calls no track id
\* is in the recency history twice (stated for runs in which no store
\* command fails).
C7_HistoryHasNoDuplicates ==
    (Idle /\ faults = 0) => \A s \in Streams : NoDuplicates(recent[s])

\* C8: when the selection finds no available track and the history it read
\* is not empty, it answers with the last element of that history, the
\* track played least recently (stated for runs in which no store command
\* fails).
C8_FallbackIsLeastRecent ==
    \A p \in Procs :
        (Selected(p) /\ rq[p].result.path = "oldest" /\ faults = 0)
        => rq[p].result.trackId = Last(rq[p].recentlyPlayed)

\* C9: when the queue yields nothing and the pool read by the call is
\* larger than the history read by the call, the track answered is chosen
\* at random, is a member of that pool and is not in that history.
C9_RandomAvoidsHistory ==
    \A p \in Procs :
        (/\ Selected(p)
         /\ Cardinality(rq[p].allTracks) > Len(rq[p].recentlyPlayed))
        => /\ rq[p].result.path = "random"
           /\ rq[p].result.trackId \in rq[p].allTracks
           /\ rq[p].result.trackId \notin Range(rq[p].recentlyPlayed)

\* A random choice made against a history that is not empty.
C9_Witness ==
    \E p \in Procs :
        /\ Selected(p)
        /\ pc[p] = "respond"
        /\ rq[p].recentlyPlayed # <<>>
        /\ Cardinality(rq[p].allTracks) > Len(rq[p].recentlyPlayed)

\* C10: NextTrack answers NoContentAvailable exactly when the queue yielded
\* nothing and the pool and the history it read are both empty; when the
\* pool it read is not empty it answers with a track (a request that a
\* failed store command ended answers StoreError).
C10_NoContentIffNothingToPlay ==
    \A p \in Procs :
        (rq[p].op = "next" /\ pc[p] = "respond")
        => /\ rq[p].result.kind = "noContent"
                <=> (/\ rq[p].queueEmpty
                     /\ ~rq[p].pipeErr
                     /\ rq[p].allTracks = {}
                     /\ rq[p].recentlyPlayed = <<>>)
           /\ (rq[p].allTracks # {} /\ rq[p].result.kind # "storeError")
                => rq[p].result.kind = "track"

\* NoContentAvailable is answered.
C10_Witness ==
    \E p \in Procs :
        /\ rq[p].op = "next"
        /\ pc[p] = "respond"
        /\ rq[p].result.kind = "noContent"

\* A step taken by the request goroutine p.
Acts(p) == pc'[p] # pc[p] \/ rq'[p] # rq[p]

OnlyEnqueued(s) ==
    /\ Len(upNext[s]) = nextSerial - 1 - Cardinality(Streams \ {"s1"})
    /\ \A i \in 1 .. Len(upNext[s]) : upNext[s][i].id # Tombstone

\* C12: after N successful Enqueue calls made one after the other on an
\* empty queue, List answers exactly the N ids enqueued, in the order of
\* the calls (and the empty list when N = 0).
C12_ListIsEnqueuedInOrder ==
    \A p \in Procs :
        (rq[p].op = "list" /\ pc[p] = "respond" /\ OnlyEnqueued(rq[p].stream))
        => /\ rq[p].result.kind = "list"
           /\ rq[p].upNextSnap = Ids(upNext[rq[p].stream])
           /\ \A i, j \in 1 .. Len(upNext[rq[p].stream]) :
                 i < j => upNext[rq[p].stream][i].n < upNext[rq[p].stream][j].n

\* C13: a NextTrack call made when no other request is in progress answers
\* with the first entry of the queue that is a track of the catalog,
\* skipping the tombstones and unknown ids before it; it goes on to the
\* selection only when the queue holds no such entry.  Calls made one
\* after the other so return the valid entries in queue order, one each.
C13_CallsReturnValidEntriesInOrder ==
    \A p \in Procs :
        (/\ rq[p].op = "next"
         /\ pc[p] = "respond"
         /\ rq[p].result.kind \in {"track", "noContent"})
        => IF rq[p].firstValid # 0
              THEN FromQueue(p) /\ rq[p].result.serial = rq[p].firstValid
              ELSE ~FromQueue(p)

\* C14: an Enqueue of a track id that is not in the catalog is rejected
\* with UnknownTrack: it never reaches the push, so the queue is unchanged,
\* and it publishes no updateUpNext event.
C14_UnknownTrackIsRejected ==
    \A p \in Procs :
        (rq[p].op = "enqueue" /\ rq[p].trackId \notin trackPool)
        => /\ pc[p] \in {"put_exists", "respond"}
           /\ pc[p] = "respond"
                => rq[p].result.kind = "unknownTrack" /\ rq[p].sent = <<>>

\* The step in which the RemoveAt request p sets its slot.
Removes(p) == pc[p] = "delete_lset" /\ pc'[p] = "pub_lrange"

\* C15: the step of a successful RemoveAt(index) writes the tombstone into
\* the slot at position index of the queue as it is at that step, and
\* changes nothing else: the queue keeps its length and every other slot
\* keeps its entry and its position.
C15_RemoveAtTombstonesOneSlot ==
    [][\A p \in Procs :
          Removes(p)
          => LET s == rq[p].stream
                 k == LSetIndex(upNext[s], rq[p].index) + 1
             IN  /\ Len(upNext'[s]) = Len(upNext[s])
                 /\ rq[p].index >= 0 => k = rq[p].index + 1
                 /\ k \in 1 .. Len(upNext[s])
                 /\ upNext'[s][k].id = Tombstone
                 /\ upNext'[s][k].n = upNext[s][k].n
                 /\ \A i \in 1 .. Len(upNext[s]) :
                       i # k => upNext'[s][i] = upNext[s][i]
                 /\ \A o \in Streams \ {s} : upNext'[o] = upNext[o]]_vars

\* The head of a queue of three has been removed and the slots after it
\* are where they were.
C15_Witness ==
    \E p \in Procs :
        /\ rq[p].op = "remove"
        /\ rq[p].index = 0
        /\ rq[p].result.kind = "ok"
        /\ pc[p] = "respond"
        /\ Ids(upNext[rq[p].stream]) = <<Tombstone, Tombstone, "B">>
        /\ delivered = EmptyBag

\* C16: a RemoveAt whose index is negative or not less than the length of
\* the queue (any index when the queue is empty) is rejected with
\* InvalidIndex: its step leaves the queue as it is and the request ends
\* without publishing an updateUpNext event.
C16_OutOfBoundsIsRejected ==
    [][\A p \in Procs :
          (/\ pc[p] = "delete_lset"
           /\ Acts(p)
           /\ \/ rq[p].index < 0
              \/ rq[p].index >= Len(upNext[rq[p].stream]))
          => /\ upNext' = upNext
             /\ pc'[p] = "respond"
             /\ rq'[p].result.kind = "badRequest"
             /\ rq'[p].sent = <<>>]_vars

\* The RemoveAt request p has set a slot, with an index that named an entry
\* of the list its client had read.
Removed(p) ==
    rq[p].op = "remove" /\ rq[p].result.kind = "ok" /\ rq[p].atSet.named

\* C17 as stated: whatever Enqueue, RemoveAt and NextTrack calls ran between
\* the client's List and its RemoveAt(i), the slot tombstoned is the entry
\* the client saw at index i, provided that entry was not consumed.
C17_IndexStableUnlessConsumed ==
    \A p \in Procs : (Removed(p) /\ rq[p].atSet.present) => rq[p].atSet.same

\* C17 amended: the slot tombstoned is the entry the client saw at index i
\* whatever Enqueue and RemoveAt calls ran in between, provided no entry
\* at all was popped from the head of the queue since the List.
C17_IndexStableUntilPop ==
    \A p \in Procs : (Removed(p) /\ rq[p].atSet.intact) => rq[p].atSet.same

\* A RemoveAt of the second entry has taken place after another request
\* changed the queue the client had read, without popping from it.
C17_Witness ==
    \E p \in Procs :
        /\ Removed(p)
        /\ rq[p].index = 1
        /\ rq[p].atSet.changed
        /\ rq[p].atSet.intact

\* The positions in the messages of request p of the update events for key k.
Updates(p, k) ==
    {i \in 1 .. Len(rq[p].sent) :
        rq[p].sent[i].event = "update" /\ rq[p].sent[i].key = k}

\* The Patch request p, carrying key k, is over.
Patched(p, k) ==
    rq[p].op = "patch" /\ pc[p] = "respond" /\ k \in DOMAIN rq[p].input

\* C18: once a Patch carrying the key playing or autoplay with value v is
\* over, state[key] is v and the request has published one update event,
\* with that key and value (stated for runs in which no store command
\* fails).
C18_FlagIsSetAndPublished ==
    \A p \in Procs : \A k \in {"playing", "autoplay"} :
        (Patched(p, k) /\ faults = 0)
        => /\ state[rq[p].stream][k] = rq[p].input[k]
           /\ Cardinality(Updates(p, k)) = 1
           /\ \A i \in Updates(p, k) : rq[p].sent[i].value = rq[p].input[k]

\* C19: requests made one after the other, no store command failing.
\* Once a Patch carrying currentTrack = X is over, state.currentTrack and
\* the head of the history are X and the request has published exactly one
\* update event for currentTrack, with value X; a GetState that follows the
\* publication of that event shows currentTrack = X.
C19_PatchedTrackIsShown ==
    /\ \A p \in Procs :
          (Patched(p, "currentTrack") /\ faults = 0)
          => /\ rq[p].result.kind = "ok"
             /\ state[rq[p].stream]["currentTrack"] = rq[p].input["currentTrack"]
             /\ recent[rq[p].stream] # <<>>
             /\ Head(recent[rq[p].stream]) = rq[p].input["currentTrack"]
             /\ Cardinality(Updates(p, "currentTrack")) = 1
             /\ \A i \in Updates(p, "currentTrack") :
                   rq[p].sent[i].value = rq[p].input["currentTrack"]
    /\ \A p \in Procs :
          (/\ rq[p].op = "state" /\ pc[p] = "respond" /\ faults = 0
           /\ lastEvent[rq[p].stream].event = "update"
           /\ lastEvent[rq[p].stream].key = "currentTrack")
          => /\ rq[p].result.kind = "state"
             /\ rq[p].stateSnap["currentTrack"] = lastEvent[rq[p].stream].value
             /\ Head(recent[rq[p].stream]) = lastEvent[rq[p].stream].value

\* A GetState answers B after Patch(currentTrack = B) on a stream that was
\* playing A.
C19_Witness ==
    \E p \in Procs :
        /\ rq[p].op = "state" /\ pc[p] = "respond" /\ faults = 0
        /\ lastEvent[rq[p].stream] = Event("update", "currentTrack", "B", <<>>)
        /\ rq[p].stateSnap["currentTrack"] = "B"
        /\ recent[rq[p].stream] = <<"B", "A">>

\* The positions of the requestSkip events in the messages of request p.
Skips(p) ==
    {i \in 1 .. Len(rq[p].sent) : rq[p].sent[i].event = "requestSkip"}

\* C20: a Patch carrying the key skip publishes one requestSkip event (when
\* no store command fails), and nothing else when skip is its only key; the
\* step that handles the key, and every step of a Patch whose only key is
\* skip, leaves the catalog and the queue, history and state hash of every
\* stream as they are, and publishes on the topic of its own stream only.
C20_SkipOnlyPublishes ==
    /\ [](\A p \in Procs :
            (Patched(p, "skip") /\ faults = 0)
            => /\ Cardinality(Skips(p)) = 1
               /\ DOMAIN rq[p].input = {"skip"} => Len(rq[p].sent) = 1)
    /\ [][\A p \in Procs :
            (/\ Acts(p)
             /\ \/ pc[p] = "skip_publish"
                \/ rq'[p].op = "patch" /\ DOMAIN rq'[p].input = {"skip"})
            => /\ store' = store
               /\ \A s \in Streams :
                     lastEvent'[s] # lastEvent[s]
                     => /\ s = rq'[p].stream
                        /\ lastEvent'[s].event = "requestSkip"]_vars

\* A skip has been published on a stream that has a current track and a
\* history.
C20_Witness ==
    \E p \in Procs :
        /\ Patched(p, "skip")
        /\ Cardinality(Skips(p)) = 1
        /\ lastEvent[rq[p].stream].event = "requestSkip"
        /\ state[rq[p].stream]["currentTrack"] # Unset
        /\ recent[rq[p].stream] # <<>>

\* The Patch request p is over.
PatchOver(p) == rq[p].op = "patch" /\ pc[p] = "respond"

QueueEvents(p) ==
    {i \in 1 .. Len(rq[p].sent) : rq[p].sent[i].event = "updateUpNext"}

\* Request p, now over, has changed the contents of the queue.
ChangedQueue(p) ==
    /\ pc[p] = "respond"
    /\ \/ rq[p].op \in {"enqueue", "remove"} /\ rq[p].result.kind = "ok"
       \/ rq[p].op = "next" /\ rq[p].popped > 0

\* C22 as stated: every Enqueue, RemoveAt and NextTrack call that changed
\* the queue, a NextTrack that popped slots and found no valid entry
\* included, has published an updateUpNext event when it completes (no
\* command having failed).
C22_QueueChangePublishes ==
    \A p \in Procs :
        (ChangedQueue(p) /\ faults = 0) => QueueEvents(p) # {}

\* C22 amended: Enqueue, RemoveAt and a NextTrack call that answers with a
\* track of the queue publish exactly one updateUpNext event before they
\* complete (no command having failed); a NextTrack call that found no
\* valid entry in the queue publishes nothing, whatever it has popped.
C22_OnlyAnsweredPopPublishes ==
    \A p \in Procs :
        pc[p] = "respond"
        => /\ ( /\ faults = 0
                /\ \/ rq[p].op \in {"enqueue", "remove"} /\ rq[p].result.kind = "ok"
                   \/ FromQueue(p) )
              => /\ Cardinality(QueueEvents(p)) = 1
                 /\ Len(rq[p].sent) = 1
           /\ (rq[p].op = "next" /\ ~FromQueue(p)) => rq[p].sent = <<>>

\* A NextTrack call has popped every slot of the queue, found no valid
\* entry and published nothing.
C22_Witness ==
    \E p \in Procs :
        /\ pc[p] = "respond" /\ rq[p].op = "next" /\ faults = 0
        /\ rq[p].popped > 0
        /\ ~FromQueue(p)
        /\ upNext[rq[p].stream] = <<>>
        /\ rq[p].sent = <<>>

\* The fields that a Patch recognizes.
Recognized == {"currentTrack", "playing", "autoplay", "skip"}

\* Field k of the Patch request p has been applied and its event published.
Applied(p, k) ==
    CASE k = "skip" -> Skips(p) # {}
      [] OTHER -> /\ state[rq[p].stream][k] = rq[p].input[k]
                  /\ \E i \in Updates(p, k) : rq[p].sent[i].value = rq[p].input[k]

\* The recognized fields of the Patch request p that were not applied.
NotApplied(p) ==
    {k \in DOMAIN rq[p].input \cap Recognized : ~Applied(p, k)}

\* C23: when one command has failed while a Patch applied its fields, every
\* recognized field of the call but the one that command belongs to has
\* been applied and its event published once the request is over, in
\* whatever order the fields were taken; a Patch of an unrecognized key
\* alone changes no state and publishes no event.
C23_OtherFieldsAreApplied ==
    /\ [](\A p \in Procs :
            (PatchOver(p) /\ nreq = 1 /\ faults = 1)
            => Cardinality(NotApplied(p)) <= 1)
    /\ [][\A p \in Procs :
            ( /\ pc[p] = "idle" /\ pc'[p] # "idle" /\ rq'[p].op = "patch"
              /\ DOMAIN rq'[p].input \cap Recognized = {} )
            => /\ pc'[p] = "respond"
               /\ rq'[p].result.kind = "ok"
               /\ rq'[p].sent = <<>>
               /\ store' = store
               /\ lastEvent' = lastEvent]_vars

\* C24: a track id that NextTrack answers with, from the queue, from the
\* random selection or from the history when every track was played, is a
\* member of the track catalog.
C24_ReturnedIsCatalogTrack ==
    \A p \in Procs :
        (rq[p].op = "next" /\ pc[p] = "respond" /\ rq[p].result.kind = "track")
        => rq[p].result.trackId \in trackPool

\* C25: an update event with key k and value v is published by a Patch only
\* when the write of state[k] = v succeeded: after a single Patch, every
\* update event it has published shows in the stream's state.
C25_PublishedUpdateWasWritten ==
    \A p \in Procs :
        (PatchOver(p) /\ nreq = 1)
        => \A i \in 1 .. Len(rq[p].sent) :
              rq[p].sent[i].event = "update"
              => state[rq[p].stream][rq[p].sent[i].key] = rq[p].sent[i].value

\* C26: once every queue operation on a stream is over, the last
\* updateUpNext event published for the stream carries the queue as it
\* then is (stated for runs in which no command fails).
C26_LastSnapshotIsFinalQueue ==
    \A s \in Streams :
        (Idle /\ faults = 0 /\ lastEvent[s].event = "updateUpNext")
        => lastEvent[s].upNext = Ids(upNext[s])

====
